---- MODULE Spec2Model ----
(***************************************************************************)
(* WebCryptoRsaKeyMaterial (ucan-key-support/src/web_crypto.rs): key       *)
(* material whose keys live in the browser's SubtleCrypto provider.        *)
(*                                                                         *)
(* The provider and the JavaScript global object are the environment.  An  *)
(* async method runs without interruption from its call to its only        *)
(* `.await` (the provider's promise), and from the settlement of that      *)
(* promise to its return: every method is two steps, Call... up to the     *)
(* await and Resume... from the settlement on.  Nothing a task reads after *)
(* the await can change between the settlement and the resumption, so the  *)
(* provider settles the promise in the Resume... step.                     *)
(***************************************************************************)
EXTENDS Integers, Sequences, FiniteSets, TLC

VARIABLES
    crypto_global,  \* what `crypto` on the JS global object currently is
    keystore,       \* ids of the key pairs the provider holds
    km,             \* the WebCryptoRsaKeyMaterial instances built so far
    calls,          \* the method calls in flight, one record per task
    held,           \* the caller's `signature`: what sign last returned, and for what
    dids            \* the identifiers get_did has returned, with their instance

vars == <<crypto_global, keystore, km, calls, held, dids>>

----------------------------------------------------------------------------
(* Bounds *)

MaxKeys == 1         \* RSA key pairs the provider generates
MaxConcurrent == 2   \* calls in flight together on one instance

\* a caller that awaits each call before it makes the next, as the tests do
Tasks == {"main"}
\* callers that do not
ConcTasks == 1..MaxConcurrent
RsaKeyIds == 1..MaxKeys
EcKeyId == MaxKeys + 1   \* a non-RSA public key the provider already holds

----------------------------------------------------------------------------
(* Option and Result values *)

None == [some |-> FALSE, val |-> 0]
Some(v) == [some |-> TRUE, val |-> v]
unwrap_or(o, d) == IF o.some THEN o.val ELSE d

\* the payload of the tests, and one that differs from it in the last byte
Payloads == { <<222, 173, 190, 239>>, <<222, 173, 190, 240>> }
\* no key size, and one long enough for the salt length of the signatures
KeySizes == { None, Some(4096) }

NoKey == [id |-> -1, type |-> "none"]
NoPrivate == [some |-> FALSE, val |-> NoKey]
\* WebCryptoRsaKeyMaterial(public key handle, optional private key handle)
WebCryptoRsaKeyMaterial(pub, priv) == [pub |-> pub, priv |-> priv]
NoInstance == WebCryptoRsaKeyMaterial(NoKey, NoPrivate)

Ok(v) == [tag |-> "Ok", val |-> v, msg |-> ""]
Err(m) == [tag |-> "Err", val |-> << >>, msg |-> m]
Panic(m) == [tag |-> "Panic", val |-> << >>, msg |-> m]
NoResult == [tag |-> "none", val |-> << >>, msg |-> ""]

----------------------------------------------------------------------------
(* Parameters fixed by the code *)

\* crate::rsa::RSA_ALGORITHM, the name put into every algorithm object
RSA_ALGORITHM == "RSA-PSS"
DefaultModulusLength == 2048
SaltLength == 128
PublicExponent == <<1, 0, 1>>
HashName == "SHA-256"
KeyUses == <<"sign", "verify">>

\* the value of a big-endian byte string
RECURSIVE BigEndian(_)
BigEndian(bytes) ==
    IF bytes = << >> THEN 0
    ELSE 256 * BigEndian(SubSeq(bytes, 1, Len(bytes) - 1)) + bytes[Len(bytes)]

----------------------------------------------------------------------------
(* Key encodings and the identifier *)

Handle(k, t) == [id |-> k, type |-> t]

KeyAlgorithm(k) == IF k = EcKeyId THEN "ECDSA" ELSE RSA_ALGORITHM

\* the modulus of key pair k, one byte wide here, different for every pair
Modulus(k) == 192 + k

\* RSAPublicKey ::= SEQUENCE { modulus, publicExponent }
Pkcs1Der(n, e) == <<48, n>> \o e

\* SubjectPublicKeyInfo: SEQUENCE { algorithm, BIT STRING { key } }; the
\* algorithm is the last byte of its object identifier (rsaEncryption ends
\* 01, id-ecPublicKey's curve arc is 3D), an EC key is an uncompressed point
ExportedSpki(k) ==
    IF KeyAlgorithm(k) = RSA_ALGORITHM
    THEN <<48, 1, 3>> \o Pkcs1Der(Modulus(k), PublicExponent)
    ELSE <<48, 61, 3, 4, Modulus(k)>>

\* RsaPublicKey::from_public_key_der
from_public_key_der(bytes) ==
    IF /\ Len(bytes) = 8
       /\ bytes[1] = 48 /\ bytes[2] = 1 /\ bytes[3] = 3
       /\ bytes[4] = 48
    THEN Ok([n |-> bytes[5], e |-> SubSeq(bytes, 6, 8)])
    ELSE Err("spki::Error")

Base58Alphabet ==
    << "1", "2", "3", "4", "5", "6", "7", "8", "9", "A", "B", "C", "D", "E",
       "F", "G", "H", "J", "K", "L", "M", "N", "P", "Q", "R", "S", "T", "U",
       "V", "W", "X", "Y", "Z", "a", "b", "c", "d", "e", "f", "g", "h", "i",
       "j", "k", "m", "n", "o", "p", "q", "r", "s", "t", "u", "v", "w", "x",
       "y", "z" >>

\* digits (least significant first) of 256 * digits + carry, in base 58
RECURSIVE Base58MulAdd(_, _)
Base58MulAdd(digits, carry) ==
    IF digits = << >>
    THEN IF carry = 0 THEN << >>
         ELSE <<carry % 58>> \o Base58MulAdd(<< >>, carry \div 58)
    ELSE LET c == carry + 256 * Head(digits)
         IN <<c % 58>> \o Base58MulAdd(Tail(digits), c \div 58)

RECURSIVE Base58Digits(_)
Base58Digits(bytes) ==
    IF bytes = << >> THEN << >>
    ELSE Base58MulAdd(Base58Digits(SubSeq(bytes, 1, Len(bytes) - 1)),
                      bytes[Len(bytes)])

RECURSIVE LeadingZeros(_)
LeadingZeros(bytes) ==
    IF bytes = << >> \/ Head(bytes) # 0 THEN << >>
    ELSE <<"1">> \o LeadingZeros(Tail(bytes))

Reverse(s) == [i \in 1..Len(s) |-> s[Len(s) + 1 - i]]

Base58Encode(bytes) ==
    LET d == Base58Digits(bytes)
    IN LeadingZeros(bytes) \o [i \in 1..Len(d) |-> Base58Alphabet[Reverse(d)[i] + 1]]

\* RsaKeyMaterial::get_did: the scheme marker, the multibase letter of
\* base58btc, then the multicodec tag of an RSA public key and the key
RsaDid(public_key) ==
    <<"did:key:", "z">>
        \o Base58Encode(<<133, 36>> \o Pkcs1Der(public_key.n, public_key.e))

----------------------------------------------------------------------------
(* The JavaScript side: the global object and the SubtleCrypto provider *)

GlobalStates == {"Crypto", "undefined", "getter throws"}

\* a JavaScript value: its class and what it holds
JsValue(class, data) == [class |-> class, data |-> data]
JsError == "JsValue(DOMException)"

NoReq == [method |-> "none"]
NoPromise == [state |-> "none", value |-> JsValue("undefined", << >>)]
Resolved(v) == [state |-> "resolved", value |-> v]
Rejected == [state |-> "rejected", value |-> JsValue("DOMException", << >>)]

\* what the provider's sign computes: a signature binds the key, the
\* parameters and the whole payload, so that no other key, parameter set or
\* payload has the same signature
ProviderSignature(k, algorithm, data) ==
    <<Modulus(k), algorithm.saltLength>> \o data

\* the key pair a generateKey request gets: the first id not yet in use
NewKeyId == CHOOSE k \in RsaKeyIds \ keystore : \A j \in RsaKeyIds \ keystore : k <= j

\* the answer WebCrypto prescribes to a request the provider accepted
ProviderAnswer(req) ==
    CASE req.method = "generateKey" ->
            Resolved(JsValue("CryptoKeyPair",
                [publicKey |-> Handle(NewKeyId, "public"),
                 privateKey |-> Handle(NewKeyId, "private")]))
      [] req.method = "exportKey" ->
            IF req.key.type = "public" /\ req.format = "spki"
            THEN Resolved(JsValue("ArrayBuffer", ExportedSpki(req.key.id)))
            ELSE Rejected
      [] req.method = "sign" ->
            IF /\ req.key.type = "private"
               /\ KeyAlgorithm(req.key.id) = req.algorithm.name
            THEN Resolved(JsValue("ArrayBuffer",
                     ProviderSignature(req.key.id, req.algorithm, req.data)))
            ELSE Rejected
      [] req.method = "verify" ->
            IF /\ req.key.type = "public"
               /\ KeyAlgorithm(req.key.id) = req.algorithm.name
            THEN Resolved(JsValue("boolean",
                     req.signature
                         = ProviderSignature(req.key.id, req.algorithm, req.data)))
            ELSE Rejected

\* the faults of a provider: it rejects, or resolves with a value of the
\* wrong class, or exports a truncated encoding
ProviderFaults(req) ==
    CASE req.method = "generateKey" ->
            { Rejected, Resolved(JsValue("undefined", << >>)) }
      [] req.method = "exportKey" ->
            { Rejected,
              Resolved(JsValue("undefined", << >>)),
              Resolved(JsValue("ArrayBuffer", SubSeq(ExportedSpki(req.key.id), 1, 3))) }
      [] req.method = "sign" ->
            { Rejected, Resolved(JsValue("undefined", << >>)) }
      [] req.method = "verify" ->
            { Rejected, Resolved(JsValue("undefined", << >>)) }

\* how the provider can settle the promise of a request it accepted
ProviderSettlements(req) == {ProviderAnswer(req)} \cup ProviderFaults(req)

----------------------------------------------------------------------------
(* Calls *)

IdleCall ==
    [op |-> "idle", pc |-> "idle", self |-> NoInstance, key_size |-> None,
     payload |-> << >>, signature |-> << >>,
     lookups |-> 0, seen |-> "-", req |-> NoReq, promise |-> NoPromise,
     result |-> NoResult]

Running(t) == calls[t].pc # "idle"
GeneratesAwaiting ==
    Cardinality({t \in DOMAIN calls : calls[t].op = "generate" /\ calls[t].pc = "await"})

\* the call returns (or the task aborts) with res
Done(rec, res) == [rec EXCEPT !.pc = "done", !.result = res]
\* the call suspends on the promise of req
Await(rec, req) == [rec EXCEPT !.pc = "await", !.req = req, !.promise.state = "pending"]

\* get_subtle_crypto of an instance that was given its provider when built
get_subtle_crypto_Bound == Ok("SubtleCrypto")

\* get_subtle_crypto: Reflect::get of "crypto" on the global object, then
\* the cast to Crypto, which is expected to succeed
get_subtle_crypto ==
    CASE crypto_global = "Crypto" -> Ok("SubtleCrypto")
      [] crypto_global = "undefined" -> Panic("Unexpected API")
      [] crypto_global = "getter throws" -> Err("Could not access WebCrypto API")

\* the call record once get_subtle_crypto has been called
Lookup(rec) == [rec EXCEPT !.lookups = @ + 1, !.seen = crypto_global]

\* private_key that hands out the handle without looking at the option
private_key_Unchecked(self) == Ok(self.priv.val)

\* private_key
private_key(self) ==
    IF self.priv.some THEN Ok(self.priv.val) ELSE Err("No private key configured")

----------------------------------------------------------------------------
(* generate *)

GenerateAlgorithm(key_size) ==
    [name |-> RSA_ALGORITHM,
     modulusLength |-> unwrap_or(key_size, DefaultModulusLength),
     publicExponent |-> PublicExponent,
     hash |-> [name |-> HashName]]

\* generateKey asked for encryption keys as well
GenerateRequest_Encrypt(key_size) ==
    [method |-> "generateKey", algorithm |-> GenerateAlgorithm(key_size),
     extractable |-> FALSE, usages |-> KeyUses \o <<"encrypt", "decrypt">>]

GenerateRequest(key_size) ==
    [method |-> "generateKey", algorithm |-> GenerateAlgorithm(key_size),
     extractable |-> FALSE, usages |-> KeyUses]

\* generate, up to its await
CallGenerate(t, key_size) ==
    /\ ~Running(t)
    /\ Cardinality(keystore \cap RsaKeyIds) + GeneratesAwaiting < MaxKeys
    /\ LET rec == Lookup([IdleCall EXCEPT !.op = "generate", !.key_size = key_size])
           subtle_crypto == get_subtle_crypto
       IN IF subtle_crypto.tag # "Ok"
          THEN calls' = [calls EXCEPT ![t] = Done(rec, subtle_crypto)]
          ELSE \E refused \in BOOLEAN :
                  calls' = [calls EXCEPT ![t] =
                      IF refused
                      THEN Done([rec EXCEPT !.req = GenerateRequest(key_size)], Err(JsError))
                      ELSE Await(rec, GenerateRequest(key_size))]
    /\ UNCHANGED <<crypto_global, keystore, km, held, dids>>

\* generate after the await: the value generateKey settled with, to the result
GenerateResult(p) ==
    IF p.state = "rejected" THEN Err(JsError)
    ELSE IF p.value.class # "CryptoKeyPair" THEN Err(JsError)
    ELSE Ok(WebCryptoRsaKeyMaterial(p.value.data.publicKey, Some(p.value.data.privateKey)))

ResumeGenerate(t) ==
    /\ calls[t].pc = "await" /\ calls[t].op = "generate"
    /\ \E p \in ProviderSettlements(calls[t].req) :
          /\ calls' = [calls EXCEPT ![t] =
                          Done([calls[t] EXCEPT !.promise = p], GenerateResult(p))]
          /\ keystore' = IF p = ProviderAnswer(calls[t].req)
                         THEN keystore \cup {p.value.data.publicKey.id} ELSE keystore
    /\ UNCHANGED <<crypto_global, km, held, dids>>

----------------------------------------------------------------------------
(* get_did *)

\* exportKey of the private key handle when there is one
ExportRequest_Private(self) ==
    [method |-> "exportKey", format |-> "spki",
     key |-> IF self.priv.some THEN self.priv.val ELSE self.pub]

ExportRequest(self) == [method |-> "exportKey", format |-> "spki", key |-> self.pub]

\* get_did, up to its await
CallGetDid(t, self) ==
    /\ ~Running(t)
    /\ LET rec == Lookup([IdleCall EXCEPT !.op = "get_did", !.self = self])
           subtle_crypto == get_subtle_crypto
       IN IF subtle_crypto.tag # "Ok"
          THEN calls' = [calls EXCEPT ![t] = Done(rec, subtle_crypto)]
          ELSE \E refused \in BOOLEAN :
                  calls' = [calls EXCEPT ![t] =
                      IF refused
                      THEN Done([rec EXCEPT !.req = ExportRequest(self)],
                                Panic("Could not access key extraction API"))
                      ELSE Await(rec, ExportRequest(self))]
    /\ UNCHANGED <<crypto_global, keystore, km, held, dids>>

\* get_did that answers an unparseable key with the bare scheme marker
GetDidResult_Default(p) ==
    IF p.state = "rejected" THEN Panic("Failed to extract public key bytes")
    ELSE IF p.value.class # "ArrayBuffer" THEN Panic("Bytes were not an ArrayBuffer")
    ELSE LET public_key == from_public_key_der(p.value.data)
         IN IF public_key.tag # "Ok" THEN Ok(<<"did:key:", "z">>)
            ELSE Ok(RsaDid(public_key.val))

\* get_did after the await: the value exportKey settled with, to the result
GetDidResult(p) ==
    IF p.state = "rejected" THEN Panic("Failed to extract public key bytes")
    ELSE IF p.value.class # "ArrayBuffer" THEN Panic("Bytes were not an ArrayBuffer")
    ELSE LET public_key == from_public_key_der(p.value.data)
         IN IF public_key.tag # "Ok" THEN public_key
            ELSE Ok(RsaDid(public_key.val))

ResumeGetDid(t) ==
    /\ calls[t].pc = "await" /\ calls[t].op = "get_did"
    /\ \E p \in ProviderSettlements(calls[t].req) :
          calls' = [calls EXCEPT ![t] = Done([calls[t] EXCEPT !.promise = p], GetDidResult(p))]
    /\ UNCHANGED <<crypto_global, keystore, km, held, dids>>

----------------------------------------------------------------------------
(* sign *)

SignAlgorithm == [name |-> RSA_ALGORITHM, saltLength |-> SaltLength]

\* sign whose payload buffer is shared by the calls in flight: a call made
\* while another is suspended signs that other call's payload
SignRequest_Shared(key, payload) ==
    LET others == {t \in DOMAIN calls : calls[t].op = "sign" /\ calls[t].pc = "await"}
    IN [method |-> "sign", algorithm |-> SignAlgorithm, key |-> key,
        data |-> IF others = {} THEN payload
                 ELSE calls[CHOOSE t \in others : TRUE].req.data]

\* the provider copies the bytes under the view of the payload while it is
\* called, before sign suspends
SignRequest(key, payload) ==
    [method |-> "sign", algorithm |-> SignAlgorithm, key |-> key, data |-> payload]

\* sign, up to its await
CallSign(t, self, payload) ==
    /\ ~Running(t)
    /\ LET rec == [IdleCall EXCEPT !.op = "sign", !.self = self, !.payload = payload]
           key == private_key(self)
           subtle_crypto == get_subtle_crypto
       IN IF key.tag # "Ok"
          THEN calls' = [calls EXCEPT ![t] = Done(rec, key)]
          ELSE IF subtle_crypto.tag # "Ok"
          THEN calls' = [calls EXCEPT ![t] = Done(Lookup(rec), subtle_crypto)]
          ELSE \E refused \in BOOLEAN :
                  calls' = [calls EXCEPT ![t] =
                      IF refused
                      THEN Done([Lookup(rec) EXCEPT !.req = SignRequest(key.val, payload)],
                                Err(JsError))
                      ELSE Await(Lookup(rec), SignRequest(key.val, payload))]
    /\ UNCHANGED <<crypto_global, keystore, km, held, dids>>

\* Uint8Array::new(value).to_vec(): the bytes of a buffer, and no bytes of
\* a value that is no buffer
Uint8ArrayNew(value) == IF value.class = "ArrayBuffer" THEN value.data ELSE << >>

\* sign after the await: the value sign settled with, to the result
SignResult(p) ==
    IF p.state = "rejected" THEN Err(JsError) ELSE Ok(Uint8ArrayNew(p.value))

ResumeSign(t) ==
    /\ calls[t].pc = "await" /\ calls[t].op = "sign"
    /\ \E p \in ProviderSettlements(calls[t].req) :
          calls' = [calls EXCEPT ![t] = Done([calls[t] EXCEPT !.promise = p], SignResult(p))]
    /\ UNCHANGED <<crypto_global, keystore, km, held, dids>>

----------------------------------------------------------------------------
(* verify *)

VerifyAlgorithm == [name |-> RSA_ALGORITHM, saltLength |-> SaltLength]

\* verify with the signature and the data in each other's place
VerifyRequest_Swapped(key, payload, signature) ==
    [method |-> "verify", algorithm |-> VerifyAlgorithm, key |-> key,
     signature |-> payload, data |-> signature]

VerifyRequest(key, payload, signature) ==
    [method |-> "verify", algorithm |-> VerifyAlgorithm, key |-> key,
     signature |-> signature, data |-> payload]

\* verify, up to its await
CallVerify(t, self, payload, signature) ==
    /\ ~Running(t)
    /\ LET rec == Lookup([IdleCall EXCEPT !.op = "verify", !.self = self,
                                          !.payload = payload, !.signature = signature])
           subtle_crypto == get_subtle_crypto
       IN IF subtle_crypto.tag # "Ok"
          THEN calls' = [calls EXCEPT ![t] = Done(rec, subtle_crypto)]
          ELSE \E refused \in BOOLEAN :
                  calls' = [calls EXCEPT ![t] =
                      IF refused
                      THEN Done([rec EXCEPT !.req = VerifyRequest(self.pub, payload, signature)],
                                Err(JsError))
                      ELSE Await(rec, VerifyRequest(self.pub, payload, signature))]
    /\ UNCHANGED <<crypto_global, keystore, km, held, dids>>

\* verify that reports a mismatch the way it reports a fault
VerifyResult_Fault(p) ==
    IF p.state = "rejected" THEN Err(JsError)
    ELSE IF p.value.class # "boolean" THEN Err(JsError)
    ELSE IF p.value.data THEN Ok(<< >>)
    ELSE Err(JsError)

\* verify after the await: the value verify settled with, to the result
VerifyResult(p) ==
    IF p.state = "rejected" THEN Err(JsError)
    ELSE IF p.value.class # "boolean" THEN Err(JsError)
    ELSE IF p.value.data THEN Ok(<< >>)
    ELSE Err("Could not verify signature")

ResumeVerify(t) ==
    /\ calls[t].pc = "await" /\ calls[t].op = "verify"
    /\ \E p \in ProviderSettlements(calls[t].req) :
          calls' = [calls EXCEPT ![t] = Done([calls[t] EXCEPT !.promise = p], VerifyResult(p))]
    /\ UNCHANGED <<crypto_global, keystore, km, held, dids>>

----------------------------------------------------------------------------
(* The caller and the environment *)

NoHeld == [self |-> NoInstance, payload |-> << >>, sig |-> << >>, promise |-> NoPromise]

\* the caller builds an instance from the handles of a key the provider holds
Import(k, with_private) ==
    /\ k \in keystore
    /\ with_private => k \in RsaKeyIds
    /\ km' = km \cup { WebCryptoRsaKeyMaterial(Handle(k, "public"),
                           IF with_private THEN Some(Handle(k, "private"))
                           ELSE NoPrivate) }
    /\ km' # km
    /\ UNCHANGED <<crypto_global, keystore, calls, held, dids>>

\* the caller takes the result of a call that has ended and keeps what it
\* returned: the instance, the signature (and how the provider came to it),
\* the identifier
Finish(t) ==
    /\ calls[t].pc = "done"
    /\ calls' = [calls EXCEPT ![t] = IdleCall]
    /\ LET c == calls[t]
       IN /\ km' = IF c.op = "generate" /\ c.result.tag = "Ok"
                   THEN km \cup {c.result.val} ELSE km
          /\ held' = IF c.op = "sign" /\ c.result.tag = "Ok"
                     THEN [self |-> c.self, payload |-> c.payload, sig |-> c.result.val,
                           promise |-> c.promise]
                     ELSE held
          /\ dids' = IF c.op = "get_did" /\ c.result.tag = "Ok"
                     THEN dids \cup {[self |-> c.self, did |-> c.result.val]} ELSE dids
    /\ UNCHANGED <<crypto_global, keystore>>

\* `crypto` on the global object changes
SetGlobal(g) ==
    /\ g # crypto_global
    /\ crypto_global' = g
    /\ UNCHANGED <<keystore, km, calls, held, dids>>

\* a signature with byte i changed
FlipByte(sig, i) == [sig EXCEPT ![i] = IF @ % 2 = 0 THEN @ + 1 ELSE @ - 1]

\* the signatures a caller passes to verify: the one sign returned, as it is
\* or with one byte changed
SignatureInputs ==
    IF held = NoHeld THEN {}
    ELSE {held.sig} \cup {FlipByte(held.sig, j) : j \in 1..Len(held.sig)}

Init ==
    /\ crypto_global = "Crypto"
    /\ keystore = {EcKeyId}
    /\ km = {}
    /\ calls = [t \in Tasks |-> IdleCall]
    /\ held = NoHeld
    /\ dids = {}

Next ==
    \/ \E t \in Tasks, key_size \in KeySizes : CallGenerate(t, key_size)
    \/ \E t \in Tasks : ResumeGenerate(t)
    \/ \E t \in Tasks, self \in km : CallGetDid(t, self)
    \/ \E t \in Tasks : ResumeGetDid(t)
    \/ \E t \in Tasks, self \in km, payload \in Payloads : CallSign(t, self, payload)
    \/ \E t \in Tasks : ResumeSign(t)
    \/ \E t \in Tasks, self \in km, payload \in Payloads, signature \in SignatureInputs :
           CallVerify(t, self, payload, signature)
    \/ \E t \in Tasks : ResumeVerify(t)
    \/ \E k \in keystore, with_private \in BOOLEAN : Import(k, with_private)
    \/ \E t \in Tasks : Finish(t)
    \/ \E g \in GlobalStates : SetGlobal(g)

Spec == Init /\ [][Next]_vars

----------------------------------------------------------------------------
(* Concurrent sign calls on the instances of one generated key pair *)

ConcInit ==
    /\ crypto_global = "Crypto"
    /\ keystore = {EcKeyId, 1}
    /\ km = { WebCryptoRsaKeyMaterial(Handle(1, "public"), Some(Handle(1, "private"))),
              WebCryptoRsaKeyMaterial(Handle(1, "public"), NoPrivate) }
    /\ calls = [t \in ConcTasks |-> IdleCall]
    /\ held = NoHeld
    /\ dids = {}

ConcNext ==
    \/ \E t \in ConcTasks, self \in km, payload \in Payloads : CallSign(t, self, payload)
    \/ \E t \in ConcTasks : ResumeSign(t)
    \/ \E t \in ConcTasks : Finish(t)
    \/ \E g \in GlobalStates : SetGlobal(g)

\* the provider settles every promise and the executor runs every task that
\* can run
ConcSpec ==
    /\ ConcInit /\ [][ConcNext]_vars
    /\ \A t \in ConcTasks : WF_vars(ResumeSign(t))

----------------------------------------------------------------------------
(* Properties *)

\* the kind of an outcome, in the taxonomy of the specification: a panic of
\* the task is no error value at all
ErrorKind(res) ==
    CASE res.tag = "Panic" -> "abort"
      [] res.tag = "Err" /\ res.msg = "No private key configured" -> "NoPrivateKey"
      [] res.tag = "Err" /\ res.msg = "Could not verify signature" -> "VerificationFailed"
      [] res.tag = "Err" /\ res.msg = "spki::Error" -> "EncodingError"
      [] res.tag = "Err" /\ res.msg \in {JsError, "Could not access WebCrypto API"} ->
            "ProviderError"
      [] OTHER -> "none"

CallsOf(op) == {t \in DOMAIN calls : calls[t].op = op}
Ended(t) == calls[t].pc = "done"

\* the provider was there, took the request and answered as prescribed
NoFault(c) ==
    /\ c.seen = "Crypto"
    /\ c.promise.state # "none"
    /\ c.promise = ProviderAnswer(c.req)

\* the caller holds a signature that sign returned from the provider's answer
HeldSigned ==
    /\ held # NoHeld
    /\ held.promise = ProviderAnswer(SignRequest(held.self.priv.val, held.payload))

SamePublicKey(a, b) == ExportedSpki(a.pub.id) = ExportedSpki(b.pub.id)

\* C1: sign on an instance without a private key handle ends with the
\* NoPrivateKey error, and the call has made neither a provider lookup nor a
\* provider request.
C1_VerifyOnlySign ==
    \A t \in CallsOf("sign") :
        ~calls[t].self.priv.some =>
            /\ Ended(t)
            /\ calls[t].result = Err("No private key configured")
            /\ ErrorKind(calls[t].result) = "NoPrivateKey"
            /\ calls[t].lookups = 0
            /\ calls[t].req = NoReq
            /\ calls[t].promise = NoPromise

C1_Witness ==
    \E t \in CallsOf("sign") :
        /\ Ended(t) /\ ~calls[t].self.priv.some
        /\ calls[t].self.pub.id \in RsaKeyIds

\* C2: verify of the payload and the signature that sign returned for it, on
\* the instance that signed, succeeds when the provider does not fault.
C2_RoundTrip ==
    \A t \in CallsOf("verify") :
        LET c == calls[t]
        IN ( /\ Ended(t) /\ HeldSigned
             /\ c.self = held.self /\ c.payload = held.payload /\ c.signature = held.sig
             /\ NoFault(c) )
           => c.result = Ok(<< >>)

C2_Witness ==
    \E t \in CallsOf("verify") :
        LET c == calls[t]
        IN /\ Ended(t) /\ HeldSigned
           /\ c.self = held.self /\ c.payload = held.payload /\ c.signature = held.sig
           /\ NoFault(c) /\ c.result.tag = "Ok"

\* the signature or the payload given to verify is not what sign was given
\* and returned: one byte of the signature changed, or another payload
Mismatch(c) ==
    \/ /\ c.payload = held.payload
       /\ \E j \in 1..Len(held.sig) : c.signature = FlipByte(held.sig, j)
    \/ /\ c.payload # held.payload
       /\ c.signature = held.sig

\* C3: verify of a signature with one byte changed, or of another payload,
\* fails with VerificationFailed when the provider answers; verify reports
\* VerificationFailed exactly when the provider resolved to false, and a
\* fault of the provider is reported as ProviderError.
C3_NegativeRoundTrip ==
    \A t \in CallsOf("verify") :
        LET c == calls[t]
        IN Ended(t) =>
            /\ ( /\ HeldSigned /\ c.self = held.self
                 /\ Mismatch(c) /\ NoFault(c) )
                    => ErrorKind(c.result) = "VerificationFailed"
            /\ ErrorKind(c.result) = "VerificationFailed"
                    <=> c.promise = Resolved(JsValue("boolean", FALSE))
            /\ ( c.promise.state = "rejected"
                 \/ (c.promise.state = "resolved" /\ c.promise.value.class # "boolean")
                 \/ (c.req # NoReq /\ c.promise.state = "none") )
                    => ErrorKind(c.result) = "ProviderError"

C3_Witness ==
    \E t \in CallsOf("verify") :
        LET c == calls[t]
        IN /\ Ended(t) /\ HeldSigned /\ c.self = held.self
           /\ c.payload = held.payload
           /\ c.signature = FlipByte(held.sig, Len(held.sig))
           /\ NoFault(c)
           /\ ErrorKind(c.result) = "VerificationFailed"

\* C4: every get_did that does not succeed ends in an error value, of kind
\* ProviderError or EncodingError, and never in an abort of the task.
C4_GetDidTypedErrors ==
    \A t \in CallsOf("get_did") :
        (Ended(t) /\ calls[t].result.tag # "Ok")
            => ErrorKind(calls[t].result) \in {"ProviderError", "EncodingError"}

\* C5: every identifier get_did returns for an instance is the one it has
\* returned before for that instance and for any instance with the same
\* public key bytes, with or without a private key handle; the key get_did
\* exports is the public key handle.
C5_DidDeterminism ==
    /\ \A t \in CallsOf("get_did") :
          /\ calls[t].req # NoReq => calls[t].req.key = calls[t].self.pub
          /\ (Ended(t) /\ calls[t].result.tag = "Ok") =>
                \A e \in dids :
                    SamePublicKey(e.self, calls[t].self) => e.did = calls[t].result.val
    /\ \A e1, e2 \in dids : SamePublicKey(e1.self, e2.self) => e1.did = e2.did

C5_Witness ==
    \E t \in CallsOf("get_did") :
        /\ Ended(t) /\ calls[t].result.tag = "Ok"
        /\ calls[t].self.priv.some
        /\ held # NoHeld
        /\ \E e \in dids : e.self = calls[t].self
        /\ \E e \in dids : ~e.self.priv.some /\ SamePublicKey(e.self, calls[t].self)

\* what a sign call returns when it runs alone: a function of its own
\* instance and payload, of what its own lookup found and of how its own
\* request was settled
SignAlone(c) ==
    IF ~c.self.priv.some THEN Err("No private key configured")
    ELSE IF c.seen = "undefined" THEN Panic("Unexpected API")
    ELSE IF c.seen = "getter throws" THEN Err("Could not access WebCrypto API")
    ELSE IF c.promise.state # "resolved" THEN Err(JsError)
    ELSE IF c.promise.value.class # "ArrayBuffer" THEN Ok(<< >>)
    ELSE Ok(ProviderSignature(c.self.priv.val.id, SignAlgorithm, c.payload))

SignIndependent ==
    \A t \in CallsOf("sign") :
        /\ calls[t].req # NoReq =>
              /\ calls[t].req.data = calls[t].payload
              /\ calls[t].req.key = calls[t].self.priv.val
        /\ Ended(t) => calls[t].result = SignAlone(calls[t])

\* C6: of the sign calls in flight together, each one that was suspended
\* ends, and each ends with the signature of its own payload under its own
\* key, or the error of its own lookup or request: the result it has alone.
C6_ConcurrentSign ==
    /\ []SignIndependent
    /\ \A t \in ConcTasks : (calls[t].pc = "await") ~> (calls[t].pc = "done")

C6_Witness ==
    \E t, u \in CallsOf("sign") :
        /\ t # u /\ Ended(t) /\ Ended(u)
        /\ calls[t].self = calls[u].self
        /\ calls[t].payload # calls[u].payload
        /\ calls[t].result.tag = "Ok" /\ calls[u].result.tag = "Ok"
        /\ calls[t].result.val # calls[u].result.val

\* C7: when the bytes the export resolved with are no RSA public key, get_did
\* ends with EncodingError and carries no identifier.
C7_MalformedKey ==
    \A t \in CallsOf("get_did") :
        LET c == calls[t]
        IN ( /\ Ended(t)
             /\ c.promise.state = "resolved" /\ c.promise.value.class = "ArrayBuffer"
             /\ from_public_key_der(c.promise.value.data).tag # "Ok" )
           => /\ c.result.tag = "Err"
              /\ ErrorKind(c.result) = "EncodingError"
              /\ c.result.val = << >>

C7_Witness ==
    \E t \in CallsOf("get_did") :
        LET c == calls[t]
        IN /\ Ended(t) /\ NoFault(c)
           /\ c.self.pub.id = EcKeyId
           /\ c.promise.state = "resolved"
           /\ ErrorKind(c.result) = "EncodingError"

\* the elements of a sequence
Range(seq) == {seq[j] : j \in 1..Len(seq)}

\* C8: every generateKey request of generate asks for the caller's key size,
\* or 2048 when there is none, the exponent 65537, SHA-256 and the uses sign
\* and verify only; a generate that succeeds returns both handles of the pair
\* the provider resolved with.
C8_GenerateRequest ==
    \A t \in CallsOf("generate") :
        LET c == calls[t]
        IN /\ c.req # NoReq =>
                /\ c.req.method = "generateKey"
                /\ c.req.algorithm.modulusLength
                       = (IF c.key_size.some THEN c.key_size.val ELSE 2048)
                /\ BigEndian(c.req.algorithm.publicExponent) = 65537
                /\ c.req.algorithm.hash.name = "SHA-256"
                /\ Range(c.req.usages) = {"sign", "verify"}
           /\ (Ended(t) /\ c.result.tag = "Ok") =>
                /\ c.promise.state = "resolved"
                /\ c.result.val.pub = c.promise.value.data.publicKey
                /\ c.result.val.priv = Some(c.promise.value.data.privateKey)
                /\ c.result.val.pub.type = "public"
                /\ c.result.val.priv.val.type = "private"
                /\ c.result.val.priv.val.id = c.result.val.pub.id

C8_Witness ==
    \E t \in CallsOf("generate") :
        /\ Ended(t) /\ calls[t].result.tag = "Ok"
        /\ ~calls[t].key_size.some
        /\ calls[t].req.algorithm.modulusLength = 2048

\* C9: verify succeeds only when it asked the provider to verify exactly its
\* signature over its payload under its public key and the provider resolved
\* to true; in every other case verify returns an error.
C9_VerifyFailClosed ==
    \A t \in CallsOf("verify") :
        LET c == calls[t]
            accepted == /\ c.req = [method |-> "verify", algorithm |-> VerifyAlgorithm,
                                    key |-> c.self.pub, signature |-> c.signature,
                                    data |-> c.payload]
                        /\ c.promise = Resolved(JsValue("boolean", TRUE))
        IN Ended(t) =>
            /\ c.result.tag = "Ok" => accepted
            /\ ~accepted => c.result.tag = "Err"

\* verify never succeeds without the provider's true
C9_NeverAcceptsUnverified ==
    \A t \in CallsOf("verify") :
        (Ended(t) /\ calls[t].result.tag = "Ok")
            => /\ calls[t].req.signature = calls[t].signature
               /\ calls[t].req.data = calls[t].payload
               /\ calls[t].req.key = calls[t].self.pub
               /\ calls[t].promise = Resolved(JsValue("boolean", TRUE))

LooksUp(t) ==
    \/ calls[t].op \in {"get_did", "verify"}
    \/ calls[t].op = "sign" /\ calls[t].self.priv.some

====
